---- MODULE Spec2Model ----
(***************************************************************************)
(* A model of gomost: the host dispatcher, the listener provisioner, the   *)
(* redirect server and the Setup / Service / Shutdown lifecycle of         *)
(* proxy.Proxy (src/proxy/proxy.go, second snapshot, lines 136-338) with   *)
(* the listener helpers of src/unnamed/part_001.                           *)
(*                                                                         *)
(* Go strings are sequences of one-character strings, so that indexing,    *)
(* slicing and concatenation are computed as the code computes them.       *)
(* File names and URL paths are Go strings too.                            *)
(***************************************************************************)
EXTENDS Integers, Sequences, FiniteSets, TLC

VARIABLES
  env,          \* the process environment: ADDR, HOST, HOSTNAME, PORT
  config,       \* Proxy.config
  handlers,     \* Proxy.handlers   (a Go map, possibly nil)
  proxies,      \* Proxy.proxies    (a Go map, possibly nil)
  proxyHandler, \* Proxy.proxyHandler: "nil" or "root" (the closure of Setup)
  rs,           \* Proxy.rs: the primary http.Server
  vs,           \* Proxy.vs: the redirect http.Server
  exit,         \* Proxy.exit: 0 is the nil channel, n > 0 the n-th channel made
  svc,          \* the caller of Service
  srv,          \* srv[r]: the goroutine launched by the r-th Service call
  rd,           \* rd[r]: the redirect goroutine launched by the r-th Listen
  sd,           \* sd[k]: the k-th caller of Shutdown
  alive,        \* FALSE once the process has exited (os.Exit, or main returned)
  addErr,       \* what the last AddHostHandler call returned
  resp,         \* the last response written by the root handler
  rresp         \* the last response written by the redirect handler

vars == <<env, config, handlers, proxies, proxyHandler, rs, vs, exit,
          svc, srv, rd, sd, alive, addErr, resp, rresp>>

----------------------------------------------------------------------------
(* Bounds *)

\* number of Service invocations on the instance
MaxRuns == 2
\* number of Shutdown invocations on the instance
MaxShutdowns == 2
\* length of Configuration.Proxies
MaxRoutes == 2

Runs == 1..MaxRuns
Callers == 1..MaxShutdowns

----------------------------------------------------------------------------
(* Strings *)

None == <<>>

Str443 == <<"4", "4", "3">>
Str80 == <<"8", "0">>
Str8443 == <<"8", "4", "4", "3">>
Str9090 == <<"9", "0", "9", "0">>
StrHttps == <<"h", "t", "t", "p", "s">>
StrHttp == <<"h", "t", "t", "p">>
SchemeHttps == <<"h", "t", "t", "p", "s", ":", "/", "/">>
ExampleCom == <<"e", "x", "a", "m", "p", "l", "e", ".", "c", "o", "m">>
Localhost == <<"l", "o", "c", "a", "l", "h", "o", "s", "t">>

\* strings.Index / strings.IndexByte for a one-byte needle: the 0-based
\* position of the first occurrence, or -1.  (First is a function of the
\* string, so that the argument is evaluated once.)
IndexByte(s, c) ==
  LET First[t \in {s}] ==
        IF \E i \in 1..Len(t) : t[i] = c
        THEN (CHOOSE i \in 1..Len(t) : t[i] = c /\ \A j \in 1..(i - 1) : t[j] # c) - 1
        ELSE -1
  IN First[s]

\* strings.LastIndex for a one-byte needle
LastIndexByte(s, c) ==
  LET Last[t \in {s}] ==
        IF \E i \in 1..Len(t) : t[i] = c
        THEN (CHOOSE i \in 1..Len(t) : t[i] = c /\ \A j \in (i + 1)..Len(t) : t[j] # c) - 1
        ELSE -1
  IN Last[s]

\* the Go slice expressions s[i:] and s[:i] (i is 0-based)
SliceFrom(s, i) == SubSeq(s, i + 1, Len(s))
SliceTo(s, i) == SubSeq(s, 1, i)

DigitChar == <<"0", "1", "2", "3", "4", "5", "6", "7", "8", "9">>

\* strconv.Itoa for a non-negative int
RECURSIVE Itoa(_)
Itoa(n) == IF n < 10 THEN <<DigitChar[n + 1]>>
           ELSE Itoa(n \div 10) \o <<DigitChar[(n % 10) + 1]>>

----------------------------------------------------------------------------
(* src/unnamed/part_001: defaults and ParseHost *)

DefaultSSLAddr == <<":">> \o Str443
DefaultServerHostname == <<"0", ".", "0", ".", "0", ".", "0">>
DefaultServerPort == 8080
DefaultServerAddr == DefaultServerHostname \o <<":">> \o Itoa(DefaultServerPort)

\* os.Getenv: an unset variable reads as the empty string
Getenv(name) == env[name]

\* EnvFallback, had HOST been consulted before ADDR
EnvFallbackHostFirst ==
  IF Getenv("HOST") # None THEN Getenv("HOST")
  ELSE IF Getenv("ADDR") # None THEN Getenv("ADDR")
  ELSE IF Getenv("HOSTNAME") # None
       THEN IF Getenv("PORT") # None
            THEN Getenv("HOSTNAME") \o <<":">> \o Getenv("PORT")
            ELSE Getenv("HOSTNAME")
  ELSE IF Getenv("PORT") # None THEN <<":">> \o Getenv("PORT")
  ELSE DefaultServerAddr

\* lines 147-161: the address taken from the environment
EnvFallback ==
  IF Getenv("ADDR") # None THEN Getenv("ADDR")
  ELSE IF Getenv("HOST") # None THEN Getenv("HOST")
  ELSE IF Getenv("HOSTNAME") # None
       THEN IF Getenv("PORT") # None
            THEN Getenv("HOSTNAME") \o <<":">> \o Getenv("PORT")
            ELSE Getenv("HOSTNAME")
  ELSE IF Getenv("PORT") # None THEN <<":">> \o Getenv("PORT")
  ELSE DefaultServerAddr

\* HostRewrite, without the case of ":https"
HostRewritePlain(a) ==
  IF IndexByte(a, ":") = 0 THEN DefaultServerHostname \o a ELSE a

\* HostRewrite, had the test been for no host before a colon or no colon
HostRewriteLoose(a) ==
  LET portIdx == IndexByte(a, ":")
  IN IF portIdx <= 0
     THEN IF SliceFrom(a, 0) = <<":">> \o StrHttps
          THEN DefaultServerHostname \o <<":">> \o Str443
          ELSE DefaultServerHostname \o a
     ELSE a

\* lines 163-170: an address without a host gets the default host
HostRewrite(a) ==
  LET portIdx == IndexByte(a, ":")
  IN IF portIdx = 0
     THEN IF SliceFrom(a, portIdx) = <<":">> \o StrHttps
          THEN DefaultServerHostname \o <<":">> \o Str443
          ELSE DefaultServerHostname \o a
     ELSE a

ParseHost(addr) == HostRewrite(IF addr = None THEN EnvFallback ELSE addr)

----------------------------------------------------------------------------
(* The standard library, as far as the code relies on it *)

\* net/url.Parse: of the strings used here, it rejects exactly those that
\* begin with a colon ("missing protocol scheme")
UrlParseFails(u) == Len(u) > 0 /\ u[1] = ":"

\* net.LookupPort: a service name resolves to its port number
LookupPort(p) == IF p = StrHttps THEN Str443
                 ELSE IF p = StrHttp THEN Str80
                 ELSE p

\* net.Listen needs "host:port"
MissingPort(a) == IndexByte(a, ":") = -1

\* the socket net.Listen binds for address a: the host (None is the wildcard,
\* which is also what 0.0.0.0 is) and the resolved port
Sock(a) ==
  LET i == LastIndexByte(a, ":")
      h == SliceTo(a, i)
  IN [host |-> IF h = DefaultServerHostname THEN None ELSE h,
      port |-> LookupPort(SliceFrom(a, i + 1))]

NoSock == [host |-> None, port |-> None]

\* two sockets that cannot be bound at the same time (EADDRINUSE)
Conflict(s, t) ==
  /\ s # NoSock /\ t # NoSock
  /\ s.port = t.port
  /\ (s.host = t.host \/ s.host = None \/ t.host = None)

\* path.Join of two elements; empty elements are ignored.  The names used
\* here hold no ".", ".." or doubled slash, so Clean changes nothing.
Join(a, b) == IF a = None THEN b
              ELSE IF b = None THEN a
              ELSE a \o <<"/">> \o b

HasSuffix(s, suf) ==
  Len(s) >= Len(suf) /\ SubSeq(s, Len(s) - Len(suf) + 1, Len(s)) = suf

IndexPage == <<"/", "i", "n", "d", "e", "x", ".", "h", "t", "m", "l">>

----------------------------------------------------------------------------
(* Values the environment supplies *)

HostA == <<"a", ".", "i", "o">>
HostB == <<"b", ".", "i", "o">>
HostAPort == HostA \o <<":">> \o Str80
HostAUpper == <<"A", ".", "i", "o">>

\* upstream URLs of the routes; UBad does not parse
U1 == <<"h", ":", "/", "/", "1">>
U2 == <<"h", ":", "/", "/", "2">>
UBad == <<":", "/", "/", "3">>

\* the static root and what the disk holds: directory w with the directory
\* w/a.io, which holds the one file w/a.io/x
StaticRoot == <<"w">>
Dirs == {StaticRoot, Join(StaticRoot, HostA)}
Files == {Join(Join(StaticRoot, HostA), <<"x">>)}

\* request paths: "/", "/x" (a file of a.io) and "/n/" (nothing of that name)
PathRoot == <<"/">>
PathX == <<"/", "x">>
PathN == <<"/", "n", "/">>

RegHosts == {None, HostA, HostB}
Handlers == {"h1", "h2"}

Route(p, h) == [Proxy |-> p, Host |-> h]

RECURSIVE SeqsUpTo(_, _)
SeqsUpTo(S, n) ==
  IF n = 0 THEN {<<>>}
  ELSE LET shorter == SeqsUpTo(S, n - 1)
       IN shorter \cup {Append(q, x) : q \in {t \in shorter : Len(t) = n - 1}, x \in S}

\* The zero value of Configuration (src/unnamed/part_000).  The log level
\* has no bearing on control flow and is left out.
ZeroConfig ==
  [Prod |-> FALSE, Addr |-> None, StaticDir |-> None, Proxies |-> <<>>,
   RedirectEnable |-> FALSE, RedirectAddr |-> None,
   DisableLetsEncrypt |-> FALSE, CertFile |-> None, KeyFile |-> None]

----------------------------------------------------------------------------
(* Go maps: a nil map reads as empty *)

EmptyFn == [x \in {} |-> None]
NilMap == [isNil |-> TRUE, m |-> EmptyFn]
MakeMap == [isNil |-> FALSE, m |-> EmptyFn]
MapHas(mp, k) == k \in DOMAIN mp.m
\* MapPut, had an existing entry been kept
MapPutKeep(mp, k, v) ==
  [mp EXCEPT !.m = [x \in (DOMAIN mp.m) \cup {k} |->
                      IF x \in DOMAIN mp.m THEN mp.m[x] ELSE v]]

MapPut(mp, k, v) ==
  [mp EXCEPT !.m = [x \in (DOMAIN mp.m) \cup {k} |-> IF x = k THEN v ELSE mp.m[x]]]

----------------------------------------------------------------------------
(* net/http.ServeFile(resp, req, name), for a request with URL path p *)

ContainsDotDot(p) ==
  \E i \in 1..(Len(p) - 1) :
    /\ p[i] = "." /\ p[i + 1] = "."
    /\ (i = 1 \/ p[i - 1] = "/")
    /\ (i + 1 = Len(p) \/ p[i + 2] = "/")

\* path.Base of a path that does not end in a slash
Base(p) == SliceFrom(p, LastIndexByte(p, "/") + 1)

Reply(st, kind, name) == [status |-> st, kind |-> kind, name |-> name]

ServeFile(p, name) ==
  IF ContainsDotDot(p) THEN Reply(400, "error", None)
  ELSE IF HasSuffix(p, IndexPage) THEN Reply(301, "redirect", <<".", "/">>)
  ELSE IF name \notin Dirs \cup Files THEN Reply(404, "error", None)
  ELSE IF name \in Dirs
       THEN IF p = None \/ p[Len(p)] # "/"
            THEN Reply(301, "redirect", Base(p) \o <<"/">>)
            ELSE IF (name \o IndexPage) \in Files
                 THEN Reply(200, "file", name \o IndexPage)
                 ELSE Reply(200, "listing", name)
       ELSE Reply(200, "file", name)

----------------------------------------------------------------------------
(* The root handler: the closure Setup stores in gm.proxyHandler *)

Response(host, p, via, to, reply) ==
  [host |-> host, path |-> p, via |-> via, to |-> to, reply |-> reply]

NoReply == Reply(0, "none", None)
NoResponse == Response(None, None, "none", None, NoReply)

\* the host of "host:port"
StripPort(host) ==
  LET i == IndexByte(host, ":") IN IF i # -1 THEN SliceTo(host, i) ELSE host

\* RootHandler, had it tried the proxies before the local handlers
RootHandlerProxyFirst(host, p) ==
  IF MapHas(proxies, host)
  THEN Response(host, p, "proxy", proxies.m[host], NoReply)
  ELSE IF MapHas(handlers, host)
  THEN Response(host, p, "handler", <<handlers.m[host]>>, NoReply)
  ELSE IF config.StaticDir # None
  THEN Response(host, p, "static", Join(config.StaticDir, host),
                ServeFile(p, Join(config.StaticDir, host)))
  ELSE Response(host, p, "notfound", None, Reply(404, "error", None))

\* RootHandler, had it tried the static root before the proxies
RootHandlerStaticFirst(host, p) ==
  IF MapHas(handlers, host)
  THEN Response(host, p, "handler", <<handlers.m[host]>>, NoReply)
  ELSE IF config.StaticDir # None
  THEN Response(host, p, "static", Join(config.StaticDir, host),
                ServeFile(p, Join(config.StaticDir, host)))
  ELSE IF MapHas(proxies, host)
  THEN Response(host, p, "proxy", proxies.m[host], NoReply)
  ELSE Response(host, p, "notfound", None, Reply(404, "error", None))

\* RootHandler, had it looked the host up without its port
RootHandlerHostname(host, p) ==
  IF MapHas(handlers, StripPort(host))
  THEN Response(host, p, "handler", <<handlers.m[StripPort(host)]>>, NoReply)
  ELSE IF MapHas(proxies, StripPort(host))
  THEN Response(host, p, "proxy", proxies.m[StripPort(host)], NoReply)
  ELSE IF config.StaticDir # None
  THEN Response(host, p, "static", Join(config.StaticDir, host),
                ServeFile(p, Join(config.StaticDir, host)))
  ELSE Response(host, p, "notfound", None, Reply(404, "error", None))

RootHandler(host, p) ==
  IF MapHas(handlers, host)
  THEN Response(host, p, "handler", <<handlers.m[host]>>, NoReply)
  ELSE IF MapHas(proxies, host)
  THEN Response(host, p, "proxy", proxies.m[host], NoReply)
  ELSE IF config.StaticDir # None
  THEN Response(host, p, "static", Join(config.StaticDir, host),
                ServeFile(p, Join(config.StaticDir, host)))
  ELSE Response(host, p, "notfound", None, Reply(404, "error", None))

\* a server whose Handler is nil serves http.DefaultServeMux, on which this
\* program registers nothing
DefaultServeMux(host, p) ==
  Response(host, p, "mux", None, Reply(404, "error", None))

----------------------------------------------------------------------------
(* Setup and AddHostHandler *)

\* RangeProxies, had a route that does not parse cleared its host's entry
RECURSIVE RangeProxiesDrop(_, _, _)
RangeProxiesDrop(routes, i, mp) ==
  IF i > Len(routes) THEN mp
  ELSE RangeProxiesDrop(routes, i + 1,
         IF UrlParseFails(routes[i].Host)
         THEN [mp EXCEPT !.m = [x \in (DOMAIN mp.m) \ {routes[i].Proxy} |-> mp.m[x]]]
         ELSE MapPut(mp, routes[i].Proxy, routes[i].Host))

\* RangeProxies, had a route that does not parse ended the loop
RECURSIVE RangeProxiesAbort(_, _, _)
RangeProxiesAbort(routes, i, mp) ==
  IF i > Len(routes) THEN mp
  ELSE IF UrlParseFails(routes[i].Host) THEN mp
  ELSE RangeProxiesAbort(routes, i + 1, MapPut(mp, routes[i].Proxy, routes[i].Host))

\* the loop over config.Proxies, from route i on
RECURSIVE RangeProxies(_, _, _)
RangeProxies(routes, i, mp) ==
  IF i > Len(routes) THEN mp
  ELSE RangeProxies(routes, i + 1,
         IF UrlParseFails(routes[i].Host) THEN mp
         ELSE MapPut(mp, routes[i].Proxy, routes[i].Host))

Setup(c) ==
  /\ alive
  /\ handlers.isNil /\ svc.run = 0 /\ addErr = "none"
  /\ \A k \in Callers : sd[k].pc = "idle"
  /\ config' = c
  /\ handlers' = MakeMap
  /\ proxies' = RangeProxies(c.Proxies, 1, MakeMap)
  /\ proxyHandler' = "root"
  /\ UNCHANGED <<env, rs, vs, exit, svc, srv, rd, sd, alive, addErr, resp, rresp>>

\* AddHostHandler, had the nil test come first
AddHostHandlerNilFirst(host, handler) ==
  /\ alive
  /\ IF handlers.isNil
     THEN addErr' = "Setup() must be called" /\ UNCHANGED handlers
     ELSE IF host = None
     THEN addErr' = "The host cannot be empty" /\ UNCHANGED handlers
     ELSE addErr' = "nil" /\ handlers' = MapPut(handlers, host, handler)
  /\ UNCHANGED <<env, config, proxies, proxyHandler, rs, vs, exit,
                 svc, srv, rd, sd, alive, resp, rresp>>

\* AddHostHandler, had it made the table when there was none
AddHostHandlerLazy(host, handler) ==
  /\ alive
  /\ IF host = None
     THEN addErr' = "The host cannot be empty" /\ UNCHANGED handlers
     ELSE /\ addErr' = "nil"
          /\ handlers' = MapPut(IF handlers.isNil THEN MakeMap ELSE handlers,
                                host, handler)
  /\ UNCHANGED <<env, config, proxies, proxyHandler, rs, vs, exit,
                 svc, srv, rd, sd, alive, resp, rresp>>

AddHostHandler(host, handler) ==
  /\ alive
  /\ IF host = None
     THEN addErr' = "The host cannot be empty" /\ UNCHANGED handlers
     ELSE IF handlers.isNil
     THEN addErr' = "Setup() must be called" /\ UNCHANGED handlers
     ELSE addErr' = "nil" /\ handlers' = MapPut(handlers, host, handler)
  /\ UNCHANGED <<env, config, proxies, proxyHandler, rs, vs, exit,
                 svc, srv, rd, sd, alive, resp, rresp>>

----------------------------------------------------------------------------
(* Listeners (src/unnamed/part_001).  bindOK, certOK and cacheOK are the   *)
(* environment's part: whether the operating system grants the address,    *)
(* whether the key pair loads, whether the cache file can be used.         *)

\* the sockets this process holds open
OpenSocks ==
  {srv[r].sock : r \in {q \in Runs : srv[q].pc \in {"L280", "L313", "serve"}}}
    \cup {rd[r].sock : r \in {q \in Runs : rd[q].pc = "serve"}}

Listener(sock, tls, err) == [sock |-> sock, tls |-> tls, err |-> err]

\* NetListen, had the operating system let two listeners share an address
NetListenShared(a, bindOK) ==
  IF MissingPort(a) \/ ~bindOK
  THEN Listener(NoSock, "none", "listen")
  ELSE Listener(Sock(a), "none", "nil")

\* net.Listen(network, a)
NetListen(a, bindOK) ==
  IF MissingPort(a) \/ ~bindOK \/ \E s \in OpenSocks : Conflict(Sock(a), s)
  THEN Listener(NoSock, "none", "listen")
  ELSE Listener(Sock(a), "none", "nil")

TCP4(addr, bindOK) == NetListen(ParseHost(addr), bindOK)

CERT(addr, bindOK) ==
  LET l == TCP4(addr, bindOK)
  IN IF l.err # "nil" THEN l ELSE Listener(l.sock, "cert", "nil")

TLS(addr, certFile, keyFile, certOK, bindOK) ==
  IF certFile = None \/ keyFile = None
  THEN Listener(NoSock, "none", "errCertKeyMissing")
  ELSE IF ~certOK THEN Listener(NoSock, "none", "errParseTLS")
  ELSE CERT(addr, bindOK)

LETSENCRYPT(addr, bindOK, cacheOK) ==
  LET a == IF IndexByte(addr, ":") = -1 THEN addr \o DefaultSSLAddr ELSE addr
      l == TCP4(a, bindOK)
  IN IF l.err # "nil" THEN l
     ELSE IF ~cacheOK THEN Listener(NoSock, "none", "cache")
     ELSE Listener(l.sock, "acme", "nil")

LETSENCRYPTPROD(addr, bindOK) ==
  LET a == IF IndexByte(addr, ":") = -1 THEN addr \o DefaultSSLAddr ELSE addr
      l == TCP4(a, bindOK)
  IN IF l.err # "nil" THEN l ELSE Listener(l.sock, "acmeprod", "nil")

----------------------------------------------------------------------------
(* Service, Listen and Shutdown (src/proxy/proxy.go 223-319) *)

NilServer == [isNil |-> TRUE, Addr |-> None, Handler |-> "nil", suffix |-> None]
Server(addr, handler, suffix) ==
  [isNil |-> FALSE, Addr |-> addr, Handler |-> handler, suffix |-> suffix]

NoGoroutine ==
  [pc |-> "none", ch0 |-> 0, ch |-> 0, err |-> "nil", via |-> "none",
   tls |-> "none", sock |-> NoSock, handler |-> "nil", addr |-> None]
NoRedirect == [pc |-> "none", sock |-> NoSock, suffix |-> None]
NoCall == [pc |-> "idle", ch |-> 0, after |-> FALSE, run |-> 0]

\* lines 227-230: a new http.Server replaces gm.rs
ServiceEnter ==
  /\ alive
  /\ svc.pc \in {"idle", "ret"}
  /\ svc.run < MaxRuns
  /\ rs' = Server(config.Addr, proxyHandler, None)
  /\ svc' = [pc |-> "L233", run |-> svc.run + 1, err |-> "nil"]
  /\ UNCHANGED <<env, config, handlers, proxies, proxyHandler, vs, exit,
                 srv, rd, sd, alive, addErr, resp, rresp>>

\* lines 233-242: the nil test, the new exit channel, the go statement
ServiceLaunch ==
  /\ alive
  /\ svc.pc = "L233"
  /\ IF rs.isNil
     THEN /\ svc' = [svc EXCEPT !.pc = "ret", !.err = "Setup() must be called"]
          /\ UNCHANGED <<exit, srv>>
     ELSE /\ exit' = svc.run
          /\ srv' = [srv EXCEPT ![svc.run] = [NoGoroutine EXCEPT !.pc = "L241",
                                                              !.ch0 = svc.run]]
          /\ svc' = [svc EXCEPT !.pc = "L245"]
  /\ UNCHANGED <<env, config, handlers, proxies, proxyHandler, rs, vs,
                 rd, sd, alive, addErr, resp, rresp>>

\* line 245: the receive on gm.exit meets a sender blocked on that channel;
\* lines 246-248: Service returns what it received
ServiceRecvShutdown(k) ==
  /\ alive
  /\ svc.pc = "L245"
  /\ sd[k].pc = "send" /\ sd[k].ch = exit
  /\ svc' = [svc EXCEPT !.pc = "ret", !.err = "nil"]
  /\ sd' = [sd EXCEPT ![k].pc = "ret"]
  /\ UNCHANGED <<env, config, handlers, proxies, proxyHandler, rs, vs, exit,
                 srv, rd, alive, addErr, resp, rresp>>

ServiceRecvListen(r) ==
  /\ alive
  /\ svc.pc = "L245"
  /\ srv[r].pc = "send" /\ srv[r].ch = exit
  /\ svc' = [svc EXCEPT !.pc = "ret", !.err = srv[r].err]
  /\ srv' = [srv EXCEPT ![r].pc = "done"]
  /\ UNCHANGED <<env, config, handlers, proxies, proxyHandler, rs, vs, exit,
                 rd, sd, alive, addErr, resp, rresp>>

\* ListenVia, had one of the two paths been enough for the key pair branch
ListenViaEither(c) ==
  IF c.CertFile # None \/ c.KeyFile # None THEN "TLS"
  ELSE IF ~c.DisableLetsEncrypt
       THEN IF c.Prod THEN "LETSENCRYPTPROD" ELSE "LETSENCRYPT"
  ELSE "TCP4"

\* lines 262-274: which constructor Listen calls
ListenVia(c) ==
  IF c.CertFile # None /\ c.KeyFile # None THEN "TLS"
  ELSE IF ~c.DisableLetsEncrypt
       THEN IF c.Prod THEN "LETSENCRYPTPROD" ELSE "LETSENCRYPT"
  ELSE "TCP4"

\* lines 254-274: the listener Listen obtains
Acquire(c, certOK, bindOK, cacheOK) ==
  LET addr == ParseHost(c.Addr)
      via == ListenVia(c)
  IN CASE via = "TLS" -> TLS(addr, c.CertFile, c.KeyFile, certOK, bindOK)
       [] via = "LETSENCRYPTPROD" -> LETSENCRYPTPROD(addr, bindOK)
       [] via = "LETSENCRYPT" -> LETSENCRYPT(addr, bindOK, cacheOK)
       [] OTHER -> TCP4(addr, bindOK)

\* ListenAcquire, had line 276 only logged the error
ListenAcquireLogged(r, certOK, bindOK, cacheOK) ==
  /\ alive
  /\ srv[r].pc = "L241"
  /\ \E ln \in {Acquire(config, certOK, bindOK, cacheOK)} :
       srv' = [srv EXCEPT ![r] =
            [@ EXCEPT !.pc = "L280",
                      !.via = ListenVia(config),
                      !.addr = ParseHost(config.Addr),
                      !.err = ln.err, !.tls = ln.tls, !.sock = ln.sock]]
  /\ UNCHANGED <<env, config, handlers, proxies, proxyHandler, rs, vs, exit,
                 svc, rd, sd, alive, addErr, resp, rresp>>

\* lines 254-277: the listener is chosen and acquired; an error is fatal
\* (golog's Fatal ends the process)
ListenAcquire(r, certOK, bindOK, cacheOK) ==
  /\ alive
  /\ srv[r].pc = "L241"
  /\ \E ln \in {Acquire(config, certOK, bindOK, cacheOK)} :
       /\ srv' = [srv EXCEPT ![r] =
            [@ EXCEPT !.pc = IF ln.err # "nil" THEN "fatal" ELSE "L280",
                      !.via = ListenVia(config),
                      !.addr = ParseHost(config.Addr),
                      !.err = ln.err, !.tls = ln.tls, !.sock = ln.sock]]
       /\ alive' = (ln.err = "nil")
  /\ UNCHANGED <<env, config, handlers, proxies, proxyHandler, rs, vs, exit,
                 svc, rd, sd, addErr, resp, rresp>>

\* lines 281-285
RealSSLPort(addr) ==
  LET i == IndexByte(addr, ":")
  IN IF i # -1 /\ SliceFrom(addr, i + 1) # Str443
     THEN SliceFrom(addr, i + 1)
     ELSE None

\* lines 280-312: the redirect server is built and its goroutine started
ListenRedirect(r) ==
  /\ alive
  /\ srv[r].pc = "L280"
  /\ IF config.RedirectEnable
     THEN /\ vs' = Server(config.RedirectAddr, "redirect", RealSSLPort(config.Addr))
          /\ rd' = [rd EXCEPT ![r] = [NoRedirect EXCEPT !.pc = "L307"]]
     ELSE UNCHANGED <<vs, rd>>
  /\ srv' = [srv EXCEPT ![r].pc = "L313"]
  /\ UNCHANGED <<env, config, handlers, proxies, proxyHandler, rs, exit,
                 svc, sd, alive, addErr, resp, rresp>>

\* line 313: gm.rs.Serve(ln) starts accepting
ListenServe(r) ==
  /\ alive
  /\ srv[r].pc = "L313"
  /\ srv' = [srv EXCEPT ![r].pc = "serve", ![r].handler = rs.Handler]
  /\ UNCHANGED <<env, config, handlers, proxies, proxyHandler, rs, vs, exit,
                 svc, rd, sd, alive, addErr, resp, rresp>>

\* the serve loop ends with an error (Serve closes the listener) and line
\* 241 sends it.  Go leaves open whether the channel operand gm.exit is read
\* before or after the call of Listen: ch is either value.
ServeFail(r, c) ==
  /\ alive
  /\ srv[r].pc = "serve"
  /\ c \in {srv[r].ch0, exit}
  /\ srv' = [srv EXCEPT ![r].pc = "send", ![r].ch = c, ![r].err = "serve"]
  /\ UNCHANGED <<env, config, handlers, proxies, proxyHandler, rs, vs, exit,
                 svc, rd, sd, alive, addErr, resp, rresp>>

\* lines 306-311: gm.vs.ListenAndServe(); it binds "tcp" on Addr as given
\* (":http" when empty), and an error is fatal
RedirectListen(r, bindOK) ==
  /\ alive
  /\ rd[r].pc = "L307"
  /\ LET a == IF vs.Addr = None THEN <<":">> \o StrHttp ELSE vs.Addr
         ln == NetListen(a, bindOK)
     IN IF ln.err # "nil"
        THEN rd' = [rd EXCEPT ![r].pc = "fatal"] /\ alive' = FALSE
        ELSE /\ rd' = [rd EXCEPT ![r] = [pc |-> "serve", sock |-> ln.sock,
                                         suffix |-> vs.suffix]]
             /\ UNCHANGED alive
  /\ UNCHANGED <<env, config, handlers, proxies, proxyHandler, rs, vs, exit,
                 svc, srv, sd, addErr, resp, rresp>>

\* the redirect serve loop ends with an error: line 309 is fatal
RedirectFail(r) ==
  /\ alive
  /\ rd[r].pc = "serve"
  /\ rd' = [rd EXCEPT ![r].pc = "fatal"]
  /\ alive' = FALSE
  /\ UNCHANGED <<env, config, handlers, proxies, proxyHandler, rs, vs, exit,
                 svc, srv, sd, addErr, resp, rresp>>

\* lines 317-319: the channel operand is read, then the send blocks until a
\* receiver takes the value; a send on the nil channel blocks for ever
Shutdown(k) ==
  /\ alive
  /\ sd[k].pc = "idle"
  /\ \A j \in 1..(k - 1) : sd[j].pc # "idle"
  /\ sd' = [sd EXCEPT ![k] = [pc |-> IF exit = 0 THEN "nilsend" ELSE "send",
                              ch |-> exit, after |-> svc.run > 0,
                              run |-> svc.run]]
  /\ UNCHANGED <<env, config, handlers, proxies, proxyHandler, rs, vs, exit,
                 svc, srv, rd, alive, addErr, resp, rresp>>

----------------------------------------------------------------------------
(* Requests *)

\* a request reaches the primary server while its serve loop runs
Dispatch(r, host, p) ==
  /\ alive
  /\ srv[r].pc = "serve"
  /\ resp' = IF srv[r].handler = "root" THEN RootHandler(host, p)
             ELSE DefaultServeMux(host, p)
  /\ UNCHANGED <<env, config, handlers, proxies, proxyHandler, rs, vs, exit,
                 svc, srv, rd, sd, alive, addErr, rresp>>

Redirection(host, uri, st, loc) ==
  [host |-> host, uri |-> uri, status |-> st, location |-> loc]
NoRedirection == Redirection(None, None, 0, None)

\* lines 291-302: the handler of the redirect server, whose closure holds
\* realSSLPort; http.Redirect leaves an absolute URL as it is
RedirectHandler(realSSLPort, host, uri) ==
  LET i == IndexByte(host, ":")
      realHost == IF i # -1 THEN SliceTo(host, i) ELSE host
      redirectTo == SchemeHttps \o realHost \o realSSLPort \o uri
  IN Redirection(host, uri, 301, redirectTo)

\* a request reaches the redirect server while its serve loop runs
RedirectRequest(r, host, uri) ==
  /\ alive
  /\ rd[r].pc = "serve"
  /\ rresp' = RedirectHandler(rd[r].suffix, host, uri)
  /\ UNCHANGED <<env, config, handlers, proxies, proxyHandler, rs, vs, exit,
                 svc, srv, rd, sd, alive, addErr, resp>>

\* src/gomost.go 66-69: the program ends once Service has returned
MainReturn ==
  /\ alive
  /\ svc.pc = "ret"
  /\ alive' = FALSE
  /\ UNCHANGED <<env, config, handlers, proxies, proxyHandler, rs, vs, exit,
                 svc, srv, rd, sd, addErr, resp, rresp>>

----------------------------------------------------------------------------
(* Inputs *)

Env(addr, host, hostname, port) ==
  [ADDR |-> addr, HOST |-> host, HOSTNAME |-> hostname, PORT |-> port]

NoEnv == Env(None, None, None, None)

Addr443 == <<":">> \o Str443
Addr8443 == <<":">> \o Str8443
Addr80 == <<":">> \o Str80
AddrHttps == <<":">> \o StrHttps
AddrHost443 == HostA \o <<":">> \o Str443

Request(host, p) == [host |-> host, path |-> p]

\* requests to the primary server
OneRequest == {Request(HostA, PathRoot)}
Requests == {Request(HostA, PathRoot), Request(HostA, PathX), Request(HostA, PathN),
             Request(HostB, PathRoot), Request(HostAPort, PathRoot),
             Request(HostAUpper, PathRoot)}

\* requests to the redirect server (path here is the request URI)
UriPathX1 == <<"/", "p", "a", "t", "h", "?", "x", "=", "1">>
ExampleCom8443 == ExampleCom \o <<":">> \o Str8443
OneRedirectRequest == {Request(ExampleCom8443, UriPathX1)}
RedirectRequests == {Request(ExampleCom8443, UriPathX1), Request(ExampleCom, PathRoot)}

\* a plain listener on :8443, files under w, no routes, no redirect server
PlainConfig ==
  [ZeroConfig EXCEPT !.Addr = Addr8443, !.DisableLetsEncrypt = TRUE,
                     !.StaticDir = StaticRoot]

\* the same with the redirect server on :80
RedirectConfig ==
  [PlainConfig EXCEPT !.RedirectEnable = TRUE, !.RedirectAddr = Addr80]

LifeConfigs == {PlainConfig, RedirectConfig}

\* configurations that vary the routing
RouteSet == {Route(HostA, U1), Route(HostA, U2), Route(HostA, UBad), Route(HostB, U1)}
RoutingConfigs ==
  {[PlainConfig EXCEPT !.StaticDir = d, !.Proxies = ps] :
     d \in {None, StaticRoot}, ps \in SeqsUpTo(RouteSet, MaxRoutes)}

\* configurations that vary the certificate source
CertConfigs ==
  {[PlainConfig EXCEPT !.Prod = pr, !.DisableLetsEncrypt = dl,
                       !.CertFile = cf, !.KeyFile = kf] :
     pr \in BOOLEAN, dl \in BOOLEAN, cf \in {None, <<"c">>}, kf \in {None, <<"k">>}}

\* configurations that vary the addresses, with the redirect server on
AddrConfigs ==
  {[RedirectConfig EXCEPT !.Addr = a, !.DisableLetsEncrypt = dl, !.RedirectAddr = ra] :
     a \in {None, Addr443, Addr8443, AddrHttps, AddrHost443, Localhost},
     dl \in BOOLEAN, ra \in {None, Addr80, Addr8443}}

\* a key pair and the redirect server together
KeyPairRedirectConfig ==
  [RedirectConfig EXCEPT !.DisableLetsEncrypt = FALSE,
                         !.CertFile = <<"c">>, !.KeyFile = <<"k">>]

ListenConfigs == CertConfigs \cup AddrConfigs \cup {KeyPairRedirectConfig}

ListenEnvs == {NoEnv,
               Env(None, None, ExampleCom, Str9090),
               Env(Addr443, None, None, Str9090)}

----------------------------------------------------------------------------
(* The state machine *)

InitIn(E) ==
  /\ env \in E
  /\ config = ZeroConfig
  /\ handlers = NilMap
  /\ proxies = NilMap
  /\ proxyHandler = "nil"
  /\ rs = NilServer
  /\ vs = NilServer
  /\ exit = 0
  /\ svc = [pc |-> "idle", run |-> 0, err |-> "nil"]
  /\ srv = [r \in Runs |-> NoGoroutine]
  /\ rd = [r \in Runs |-> NoRedirect]
  /\ sd = [k \in Callers |-> NoCall]
  /\ alive = TRUE
  /\ addErr = "none"
  /\ resp = NoResponse
  /\ rresp = NoRedirection

Init == InitIn({NoEnv})

\* the steps of Service and of the goroutine it starts, up to the serve loop
Serving(B) ==
  \/ ServiceEnter
  \/ ServiceLaunch
  \/ \E r \in Runs, certOK \in B, bindOK \in B, cacheOK \in B :
       ListenAcquire(r, certOK, bindOK, cacheOK)
  \/ \E r \in Runs : ListenRedirect(r)
  \/ \E r \in Runs : ListenServe(r)

\* the redirect goroutine
Redirecting(B) ==
  \/ \E r \in Runs, bindOK \in B : RedirectListen(r, bindOK)

\* Every operation, for a few configurations and one request of each kind.
Next ==
  \/ \E c \in LifeConfigs : Setup(c)
  \/ \E h \in {None, HostA} : AddHostHandler(h, "h1")
  \/ Serving(BOOLEAN)
  \/ Redirecting(BOOLEAN)
  \/ \E r \in Runs, c \in 0..MaxRuns : ServeFail(r, c)
  \/ \E r \in Runs : ServiceRecvListen(r)
  \/ \E r \in Runs : RedirectFail(r)
  \/ \E k \in Callers : Shutdown(k)
  \/ \E k \in Callers : ServiceRecvShutdown(k)
  \/ \E r \in Runs, q \in OneRequest : Dispatch(r, q.host, q.path)
  \/ \E r \in Runs, q \in OneRedirectRequest : RedirectRequest(r, q.host, q.path)
  \/ MainReturn

Spec == Init /\ [][Next]_vars

\* The dispatcher: every routing table and every request, on a listener
\* that the environment grants and never breaks.
RoutingNext ==
  \/ \E c \in RoutingConfigs : Setup(c)
  \/ \E h \in RegHosts, x \in Handlers : AddHostHandler(h, x)
  \/ Serving({TRUE})
  \/ \E r \in Runs, q \in Requests : Dispatch(r, q.host, q.path)

RoutingSpec == Init /\ [][RoutingNext]_vars

\* The listeners: every certificate source, address and environment, and
\* every request to the redirect server; nobody calls Shutdown.
ListenNext ==
  \/ \E c \in ListenConfigs : Setup(c)
  \/ Serving(BOOLEAN)
  \/ Redirecting(BOOLEAN)
  \/ \E r \in Runs, c \in 0..MaxRuns : ServeFail(r, c)
  \/ \E r \in Runs : ServiceRecvListen(r)
  \/ \E r \in Runs : RedirectFail(r)
  \/ \E r \in Runs, q \in RedirectRequests : RedirectRequest(r, q.host, q.path)

ListenSpec == InitIn(ListenEnvs) /\ [][ListenNext]_vars

\* ParseHost: every combination of set and unset environment variables and
\* every shape of configured address, on a plain listener.
ParseAddrs == {None, Addr443, Addr8443, AddrHttps, AddrHost443, Localhost}
ParseConfigs == {[PlainConfig EXCEPT !.Addr = a] : a \in ParseAddrs}
ParseEnvs ==
  {Env(a, h, n, p) : a \in {None, Addr443, AddrHost443}, h \in {None, Localhost},
                     n \in {None, ExampleCom}, p \in {None, Str9090, StrHttps}}

ParseNext ==
  \/ \E c \in ParseConfigs : Setup(c)
  \/ Serving({TRUE})

ParseSpec == InitIn(ParseEnvs) /\ [][ParseNext]_vars

\* Shutdown and the lifecycle, in an environment that grants every listener,
\* never breaks a serve loop and calls Shutdown only once Service has been
\* called.  The Go scheduler runs every goroutine
\* that can take a step: the caller of Service, the serve goroutine and the
\* redirect goroutine of each run.
FairNext ==
  \/ \E c \in LifeConfigs : Setup(c)
  \/ \E h \in {None, HostA} : AddHostHandler(h, "h1")
  \/ Serving({TRUE})
  \/ Redirecting({TRUE})
  \/ \E k \in Callers : svc.run > 0 /\ Shutdown(k)
  \/ \E k \in Callers : ServiceRecvShutdown(k)
  \/ \E r \in Runs, q \in OneRequest : Dispatch(r, q.host, q.path)
  \/ \E r \in Runs, q \in OneRedirectRequest : RedirectRequest(r, q.host, q.path)

FairSpec ==
  /\ Init
  /\ [][FairNext]_vars
  /\ WF_vars(ServiceLaunch \/ \E k \in Callers : ServiceRecvShutdown(k))
  /\ \A r \in Runs :
       WF_vars(ListenAcquire(r, TRUE, TRUE, TRUE) \/ ListenRedirect(r) \/ ListenServe(r))
  /\ \A r \in Runs : WF_vars(RedirectListen(r, TRUE))

----------------------------------------------------------------------------
(* The dispatcher's claims.  A step that changes resp is a request handled *)
(* by the root handler, and resp' is what it answered.                     *)

\* the upstream of the last route for host h whose URL parses
IsLastRoute(routes, h, u) ==
  \E i \in 1..Len(routes) :
    /\ routes[i].Proxy = h /\ routes[i].Host = u /\ ~UrlParseFails(u)
    /\ \A j \in (i + 1)..Len(routes) :
         routes[j].Proxy = h => UrlParseFails(routes[j].Host)

\* C1: a request whose Host has a registered local handler is delegated to
\* that handler and to nothing else, also when a route for the host and a
\* static root are configured
C1_HandlerPriority ==
  [][resp' # resp =>
       (MapHas(handlers, resp'.host) =>
          /\ resp'.via = "handler"
          /\ resp'.to = <<handlers.m[resp'.host]>>)]_vars

\* C1 witness: a request was handed to the local handler of a host that has
\* a route too, with a static root configured
C1_Witness ==
  /\ resp.via = "handler"
  /\ MapHas(handlers, resp.host) /\ resp.to = <<handlers.m[resp.host]>>
  /\ MapHas(proxies, resp.host)
  /\ config.StaticDir # None

\* C8: a request whose Host has a route and no local handler is forwarded to
\* the upstream configured for that host and to nothing else, whatever the
\* static root is
C8_ProxyRouting ==
  [][resp' # resp =>
       ((~MapHas(handlers, resp'.host) /\ MapHas(proxies, resp'.host)) =>
          /\ resp'.via = "proxy"
          /\ IsLastRoute(config.Proxies, resp'.host, resp'.to))]_vars

\* C8 witness: a request was forwarded to the upstream of a host without a
\* local handler, with a static root configured
C8_Witness ==
  /\ resp.via = "proxy"
  /\ ~MapHas(handlers, resp.host)
  /\ IsLastRoute(config.Proxies, resp.host, resp.to)
  /\ config.StaticDir # None

\* C9: a request whose Host is not character for character a key of either
\* table is handed to no handler and no upstream, and it is answered 404
\* when the static root is empty
C9_ExactMatch ==
  [][resp' # resp =>
       ((resp'.host \notin DOMAIN handlers.m /\ resp'.host \notin DOMAIN proxies.m) =>
          /\ resp'.via \notin {"handler", "proxy"}
          /\ (config.StaticDir = None =>
                resp'.via # "static" /\ resp'.reply.status = 404))]_vars

\* C9 witness: the host of the request differs from a registered host only
\* by a port, or only by the case of a letter, and the answer was 404
C9_Witness ==
  /\ resp.host \in {HostAPort, HostAUpper}
  /\ MapHas(handlers, HostA) /\ MapHas(proxies, HostA)
  /\ resp.via = "notfound" /\ resp.reply.status = 404

\* the file staticRoot/h/P that a request for path P of host h names
RequestedFile(h, p) ==
  LET q == IF p # None /\ p[1] = "/" THEN SliceFrom(p, 1) ELSE p
      t == IF q # None /\ q[Len(q)] = "/" THEN SliceTo(q, Len(q) - 1) ELSE q
  IN Join(Join(config.StaticDir, h), t)

\* C7: a request for path P of a host with neither handler nor route is
\* resolved against staticRoot/h/P when the static root is not empty, and is
\* answered 404 when nothing of that name exists
C7_StaticPath ==
  [][resp' # resp =>
       ((~MapHas(handlers, resp'.host) /\ ~MapHas(proxies, resp'.host)
           /\ config.StaticDir # None) =>
          /\ resp'.via = "static"
          /\ resp'.to = RequestedFile(resp'.host, resp'.path)
          /\ (RequestedFile(resp'.host, resp'.path) \notin Dirs \cup Files =>
                resp'.reply.status = 404))]_vars

----------------------------------------------------------------------------
(* The lifecycle's claims *)

\* run r holds the primary listener open: acquired, and its serve loop has
\* not ended
PrimaryListening(r) == alive /\ srv[r].pc \in {"L280", "L313", "serve"}

\* C2: a Shutdown called at any moment after Service was called leads to
\* that call of Service returning, and returning no error
C2_ShutdownEndsService ==
  \A k \in Callers : \A r \in Runs :
    (sd[k].pc # "idle" /\ sd[k].run = r /\ svc.run = r /\ svc.pc # "ret")
      ~> (svc.run = r /\ svc.pc = "ret" /\ svc.err = "nil")

\* C3: once a Shutdown has been delivered and Service has returned, the
\* primary listener is released: no serve loop holds it, so no request is
\* accepted on it
C3_ListenerReleased ==
  (svc.pc = "ret" /\ svc.err = "nil" /\ \E k \in Callers : sd[k].pc = "ret")
    => \A r \in Runs : ~PrimaryListening(r)

\* C4: every call of Shutdown made after Service was called returns
C4_ShutdownReturns ==
  \A k \in Callers : (sd[k].pc # "idle" /\ sd[k].after) ~> (sd[k].pc = "ret")

----------------------------------------------------------------------------
(* The listeners' claims *)

\* the port of the configured primary address: what follows its first colon
ConfiguredPort == SliceFrom(config.Addr, IndexByte(config.Addr, ":") + 1)

\* C5: with a configured primary port P other than 443, the redirect server
\* answers a request for Host H and URI U with 301 and the Location
\* https:// + (H without its port) + ":" + P + U
C5_RedirectLocation ==
  (rresp # NoRedirection /\ IndexByte(config.Addr, ":") # -1
     /\ ConfiguredPort # Str443) =>
    /\ rresp.status = 301
    /\ rresp.location =
         SchemeHttps \o StripPort(rresp.host) \o <<":">> \o ConfiguredPort \o rresp.uri

\* C6: the redirect suffix is empty exactly when the primary listener is
\* bound to port 443, and otherwise it carries the bound port
C6_SuffixMatchesPort ==
  \A r \in Runs :
    (srv[r].pc \in {"L313", "serve"} /\ ~vs.isNil) =>
      /\ (vs.suffix = None) <=> (srv[r].sock.port = Str443)
      /\ (vs.suffix # None) => (vs.suffix = srv[r].sock.port)

\* C10: Listen takes exactly one certificate source, by strict priority: the
\* key pair iff both paths are set; else ACME iff it is not disabled, in the
\* production variant iff the production flag is set; else a plain listener
C10_CertSource ==
  \A r \in Runs :
    srv[r].via # "none" =>
      LET both == config.CertFile # None /\ config.KeyFile # None
          acme == ~both /\ ~config.DisableLetsEncrypt
      IN /\ (srv[r].via = "TLS") <=> both
         /\ (srv[r].via = "LETSENCRYPTPROD") <=> (acme /\ config.Prod)
         /\ (srv[r].via = "LETSENCRYPT") <=> (acme /\ ~config.Prod)
         /\ (srv[r].via = "TCP4") <=> (~both /\ config.DisableLetsEncrypt)
         /\ srv[r].pc # "fatal" =>
              srv[r].tls = (IF both THEN "cert"
                            ELSE IF acme /\ config.Prod THEN "acmeprod"
                            ELSE IF acme THEN "acme"
                            ELSE "none")

\* C10 witness: with only the certificate path set and the production flag
\* off, the primary server serves on the non-production ACME listener
C10_Witness ==
  \E r \in Runs :
    /\ srv[r].pc = "serve" /\ srv[r].via = "LETSENCRYPT" /\ srv[r].tls = "acme"
    /\ config.CertFile # None /\ config.KeyFile = None
    /\ ~config.DisableLetsEncrypt /\ ~config.Prod

----------------------------------------------------------------------------
(* The claims about failures and about ParseHost *)

\* the errors of the listener constructors
AcquireErrors == {"errCertKeyMissing", "errParseTLS", "listen", "cache"}

Parsed(r) == srv[r].pc \notin {"none", "L241"}

\* C12: an address without a colon, empty or not, is replaced by the value
\* taken from the environment
C12_FallbackWithoutColon ==
  \A r \in Runs :
    (Parsed(r) /\ IndexByte(config.Addr, ":") = -1) =>
      srv[r].addr = HostRewrite(EnvFallback)

\* C13: for the empty address the result comes from the first non-empty of
\* ADDR, HOST, HOSTNAME (with ":" and PORT appended when PORT is set), PORT
\* alone (as ":" and PORT), and else it is 0.0.0.0:8080; PORT plays no part
\* when ADDR or HOST is set, and HOSTNAME=example.com with PORT=9090 gives
\* example.com:9090
C13_EnvPriority ==
  \A r \in Runs :
    (Parsed(r) /\ config.Addr = None) =>
      /\ env.ADDR # None => srv[r].addr = HostRewrite(env.ADDR)
      /\ (env.ADDR = None /\ env.HOST # None) => srv[r].addr = HostRewrite(env.HOST)
      /\ (env.ADDR = None /\ env.HOST = None /\ env.HOSTNAME # None /\ env.PORT # None) =>
            srv[r].addr = HostRewrite(env.HOSTNAME \o <<":">> \o env.PORT)
      /\ (env.ADDR = None /\ env.HOST = None /\ env.HOSTNAME # None /\ env.PORT = None) =>
            srv[r].addr = HostRewrite(env.HOSTNAME)
      /\ (env.ADDR = None /\ env.HOST = None /\ env.HOSTNAME = None /\ env.PORT # None) =>
            srv[r].addr = HostRewrite(<<":">> \o env.PORT)
      /\ env = NoEnv =>
            srv[r].addr = <<"0", ".", "0", ".", "0", ".", "0", ":", "8", "0", "8", "0">>
      /\ env = Env(None, None, ExampleCom, Str9090) =>
            srv[r].addr = ExampleCom \o <<":">> \o Str9090

\* C13 witness: the empty address was parsed with all four variables set,
\* and the result is the value of ADDR
C13_Witness ==
  \E r \in Runs :
    /\ Parsed(r) /\ config.Addr = None
    /\ env = Env(AddrHost443, Localhost, ExampleCom, Str9090)
    /\ srv[r].addr = AddrHost443

\* C14: an address that begins with a colon gets 0.0.0.0 in front, except
\* ":https", which becomes 0.0.0.0:443; the same holds for the value taken
\* from the environment (PORT=9090 alone gives 0.0.0.0:9090); an address
\* with a host before its first colon is returned as it is
C14_ColonRewrite ==
  \A r \in Runs :
    Parsed(r) =>
      LET a == IF config.Addr = None THEN EnvFallback ELSE config.Addr
      IN /\ (IndexByte(a, ":") = 0 /\ a # AddrHttps) =>
              srv[r].addr = <<"0", ".", "0", ".", "0", ".", "0">> \o a
         /\ a = AddrHttps =>
              srv[r].addr = <<"0", ".", "0", ".", "0", ".", "0", ":", "4", "4", "3">>
         /\ (config.Addr = None /\ env = Env(None, None, None, Str9090)) =>
              srv[r].addr = <<"0", ".", "0", ".", "0", ".", "0", ":", "9", "0", "9", "0">>
         /\ IndexByte(config.Addr, ":") > 0 => srv[r].addr = config.Addr

\* C14 witness: ":https" was parsed
C14_Witness ==
  \E r \in Runs :
    /\ Parsed(r) /\ config.Addr = AddrHttps
    /\ srv[r].addr = <<"0", ".", "0", ".", "0", ".", "0", ":", "4", "4", "3">>

----------------------------------------------------------------------------
(* The claims about AddHostHandler and Setup *)

\* C15: AddHostHandler with the empty host returns the empty-host error,
\* also on an instance that was never set up, and changes neither table
C15_EmptyHostRejected ==
  [][\A x \in Handlers :
       AddHostHandler(None, x) =>
         /\ addErr' = "The host cannot be empty"
         /\ handlers' = handlers
         /\ proxies' = proxies]_vars

\* C15 witness: the empty host was refused on an instance never set up
C15_Witness ==
  /\ addErr = "The host cannot be empty"
  /\ handlers.isNil /\ proxyHandler = "nil"

\* C16: AddHostHandler with a non-empty host returns the not-initialized
\* error and registers nothing when Setup has not run, and never returns
\* that error on an instance Setup returned
C16_NotInitialized ==
  [][\A h \in RegHosts \ {None}, x \in Handlers :
       AddHostHandler(h, x) =>
         IF proxyHandler = "root"
         THEN addErr' # "Setup() must be called"
         ELSE /\ addErr' = "Setup() must be called"
              /\ handlers' = handlers /\ ~MapHas(handlers', h)
              /\ proxies' = proxies]_vars

\* C16 witness: a registration was refused on an instance never set up
C16_Witness ==
  /\ addErr = "Setup() must be called"
  /\ handlers.isNil /\ proxyHandler = "nil"

\* C17: a successful AddHostHandler(h, x) makes x the handler of h, whatever
\* h had before, and leaves every other host's handler and the proxy table
\* as they were
C17_LastWriteWins ==
  [][\A h \in RegHosts \ {None}, x \in Handlers :
       (AddHostHandler(h, x) /\ addErr' = "nil") =>
         /\ MapHas(handlers', h) /\ handlers'.m[h] = x
         /\ DOMAIN handlers'.m = DOMAIN handlers.m \cup {h}
         /\ \A g \in DOMAIN handlers.m \ {h} : handlers'.m[g] = handlers.m[g]
         /\ proxies' = proxies]_vars

\* C17 witness: a.io was served by handler h1 and is now registered to h2,
\* next to b.io's handler and a proxy table with entries
C17_Witness ==
  /\ addErr = "nil"
  /\ resp.host = HostA /\ resp.via = "handler" /\ resp.to = <<"h1">>
  /\ MapHas(handlers, HostA) /\ handlers.m[HostA] = "h2"
  /\ MapHas(handlers, HostB)
  /\ proxies.m # EmptyFn

\* the routes of the configuration that name host h
RoutesOf(routes, h) == {i \in 1..Len(routes) : routes[i].Proxy = h}

\* the last of the routes of host h
LastOf(routes, h) ==
  CHOOSE i \in RoutesOf(routes, h) : \A j \in RoutesOf(routes, h) : j <= i

\* C18 as stated: when two routes name the same host, the host's one active
\* route is the later of them, also when the later one's URL does not parse
C18_LaterRouteWins ==
  proxyHandler = "root" =>
    \A h \in {HostA, HostB} :
      Cardinality(RoutesOf(config.Proxies, h)) >= 2 =>
        /\ MapHas(proxies, h)
        /\ proxies.m[h] = config.Proxies[LastOf(config.Proxies, h)].Host

\* C18 amended: when two routes name the same host, the host has at most one
\* active route, and it is the last of its routes whose URL parses; a later
\* route whose URL does not parse leaves the earlier one active
C18_LaterParsedRouteWins ==
  proxyHandler = "root" =>
    \A h \in {HostA, HostB} :
      Cardinality(RoutesOf(config.Proxies, h)) >= 2 =>
        IF \E i \in RoutesOf(config.Proxies, h) : ~UrlParseFails(config.Proxies[i].Host)
        THEN MapHas(proxies, h) /\ IsLastRoute(config.Proxies, h, proxies.m[h])
        ELSE ~MapHas(proxies, h)

\* C18 witness: the later of two routes of a.io does not parse and the
\* earlier one is active
C18_Witness ==
  /\ proxyHandler = "root"
  /\ config.Proxies = <<Route(HostA, U1), Route(HostA, UBad)>>
  /\ MapHas(proxies, HostA) /\ proxies.m[HostA] = U1

\* the route's upstream URL parses
Parses(rt) == ~UrlParseFails(rt.Host)

\* C19: whatever the routes, Setup returns an instance; every host with a
\* route that parses has an entry, taken from one of its routes that parse;
\* a route that does not parse adds no entry, and the table is the one the
\* same list without such routes gives
C19_MalformedRouteSkipped ==
  proxyHandler = "root" =>
    /\ ~handlers.isNil /\ ~proxies.isNil
    /\ \A i \in 1..Len(config.Proxies) :
         Parses(config.Proxies[i]) =>
           /\ MapHas(proxies, config.Proxies[i].Proxy)
           /\ \E j \in RoutesOf(config.Proxies, config.Proxies[i].Proxy) :
                /\ Parses(config.Proxies[j])
                /\ proxies.m[config.Proxies[i].Proxy] = config.Proxies[j].Host
    /\ DOMAIN proxies.m =
         {config.Proxies[i].Proxy :
            i \in {j \in 1..Len(config.Proxies) : Parses(config.Proxies[j])}}
    /\ proxies = RangeProxies(SelectSeq(config.Proxies, Parses), 1, MakeMap)

\* C19 witness: a route that does not parse comes before one of another
\* host, and only the second is in the table
C19_Witness ==
  /\ proxyHandler = "root"
  /\ config.Proxies = <<Route(HostA, UBad), Route(HostB, U1)>>
  /\ DOMAIN proxies.m = {HostB} /\ proxies.m[HostB] = U1

----------------------------------------------------------------------------
(* The claim about the two listeners *)

\* the redirect listener of run r is bound and serving
RedirectListening(r) == alive /\ rd[r].pc = "serve"

----------------------------------------------------------------------------
(* The claims about the exit channel and the lifecycle *)

\* C21: the value Service returns in a run is the first one delivered on the
\* exit channel of that run, the error of that run's serve loop or the nil
\* of a Shutdown; what the other sender offers later is never received
C21_FirstValueReturned ==
  [][/\ (svc.pc = "L245" /\ svc'.pc = "ret") =>
          \/ /\ srv[svc.run].pc = "send" /\ srv'[svc.run].pc = "done"
             /\ svc'.err = srv[svc.run].err
          \/ \E k \in Callers :
               sd[k].pc = "send" /\ sd'[k].pc = "ret" /\ svc'.err = "nil"
     /\ \A r \in Runs :
          (srv[r].pc # "done" /\ (svc.run > r \/ (svc.run = r /\ svc.pc = "ret"))) =>
            srv'[r].pc # "done"]_vars

\* C22: from the start of the primary serve loop until Service returns, no
\* step changes the handler table or the proxy table
C22_TableReadOnlyWhileServing ==
  [][(svc.pc = "L245" /\ srv[svc.run].pc = "serve") =>
       (handlers' = handlers /\ proxies' = proxies)]_vars

\* C23: on an instance on which Setup has not run, Service returns the error
\* "Setup() must be called" and makes no exit channel, acquires no listener
\* and starts no serve loop
C23_ServiceRequiresSetup ==
  (proxyHandler = "nil" /\ svc.run > 0 /\ svc.pc # "L233") =>
    /\ svc.pc = "ret" /\ svc.err = "Setup() must be called"
    /\ exit = 0
    /\ \A r \in Runs : srv[r].pc = "none" /\ srv[r].sock = NoSock

\* C24: the lifecycle only moves forward: a primary serve loop starts only
\* on an instance Setup returned and with the listener acquired; the
\* redirect goroutine is started only with the primary listener acquired
\* and before the primary serve loop begins; once Service has returned it
\* is not serving again
C24_LifecycleForward ==
  [][/\ \A r \in Runs :
          (srv[r].pc # "serve" /\ srv'[r].pc = "serve") =>
            (proxyHandler = "root" /\ srv[r].sock # NoSock)
     /\ \A r \in Runs :
          (rd[r].pc = "none" /\ rd'[r].pc # "none") =>
            (srv[r].sock # NoSock /\ srv[r].pc = "L280" /\ srv'[r].pc = "L313")
     /\ svc.pc = "ret" => svc'.pc = "ret"]_vars

\* C25: when Service has returned, no serve goroutine is left blocked in
\* its send on the exit channel
C25_NoBlockedSender ==
  (alive /\ svc.pc = "ret") => \A r \in Runs : srv[r].pc # "send"

\* C26: the address Listen computes is not empty, does not begin with a
\* colon and is a fixed point of ParseHost, so that the listener TCP4 binds
\* after parsing it once more is bound to that address
C26_ParseHostIdempotent ==
  \A r \in Runs :
    Parsed(r) =>
      /\ srv[r].addr # None
      /\ srv[r].addr[1] # ":"
      /\ ParseHost(srv[r].addr) = srv[r].addr
      /\ (srv[r].via = "TCP4" /\ srv[r].sock # NoSock) =>
            srv[r].sock = Sock(srv[r].addr)

\* C26 witness: the empty address with only PORT=9090 set was parsed and
\* the listener is bound to 0.0.0.0:9090
C26_Witness ==
  \E r \in Runs :
    /\ Parsed(r) /\ config.Addr = None /\ env = Env(None, None, None, Str9090)
    /\ srv[r].addr = DefaultServerHostname \o <<":">> \o Str9090
    /\ srv[r].via = "TCP4" /\ srv[r].sock = [host |-> None, port |-> Str9090]

====
